---- MODULE Spec2Model ----
(***************************************************************************)
(* Fixed-pattern locate functions of stringi:                              *)
(*   stri_locate_first_fixed, stri_locate_last_fixed                       *)
(*   (both through stri__locate_firstlast_fixed) and stri_locate_all_fixed *)
(* (src/src/stri_search_fixed_locate.cpp), with the recycled container     *)
(* accessors isNA/get (src/src/stri_container_listutf8.h).                 *)
(*                                                                         *)
(* Strings are sequences of UTF-8 bytes (integers 0..255); a missing       *)
(* string is NA.  One behaviour of the model is one call: the arguments    *)
(* are fixed in Init, the recycling rule is applied, the vectorized loop   *)
(* runs one iteration per step, and the call returns.                      *)
(***************************************************************************)
EXTENDS Integers, Sequences, FiniteSets

\* ------------------------------------------------------------------ bounds
MaxSubjLen == 4     \* codepoints in an enumerated subject
MaxPatLen == 2      \* codepoints in an enumerated pattern
MaxVec == 3         \* elements in an enumerated argument vector

\* --------------------------------------------------------------- constants
\* INT_MIN, R's missing integer
NA_INTEGER == -2147483647 - 1
USEARCH_DONE == -1

\* A string of a container: its bytes, or NA (a NULL element / NA_STRING).
String8(bytes) == [na |-> FALSE, s |-> bytes]
NA == [na |-> TRUE, s |-> <<>>]

\* ------------------------------------------------------------------ UTF-8
\* The UTF-8 encoding of one codepoint (below U+10000).
EncodeCp(cp) ==
    IF cp < 128 THEN <<cp>>
    ELSE IF cp < 2048 THEN <<192 + (cp \div 64), 128 + (cp % 64)>>
    ELSE <<224 + (cp \div 4096), 128 + ((cp \div 64) % 64), 128 + (cp % 64)>>

RECURSIVE Encode(_)
Encode(cps) ==
    IF cps = <<>> THEN <<>> ELSE EncodeCp(Head(cps)) \o Encode(Tail(cps))

\* U8_FWD_1: the number of bytes of the codepoint whose lead byte is b.
U8Length(b) ==
    IF b < 192 THEN 1
    ELSE IF b < 224 THEN 2
    ELSE IF b < 240 THEN 3
    ELSE 4

SeqsUpTo(S, n) == UNION {[1..k -> S] : k \in 0..n}

\* a = 97, b = 98, c = 99, x y z = 120..122, e-acute = 233, euro sign = 8364
Alphabet == {97, 98, 233}
Subjects ==
    {String8(Encode(w)) : w \in SeqsUpTo(Alphabet, MaxSubjLen)}
        \cup {String8(Encode(<<97, 98, 99, 97, 98, 99>>)),
              String8(Encode(<<120, 121, 122>>)),
              String8(Encode(<<233, 98, 99>>)),
              String8(Encode(<<8364, 97, 98, 99>>))}
        \cup {NA}
Patterns ==
    {String8(Encode(w)) : w \in SeqsUpTo(Alphabet, MaxPatLen)}
        \cup {String8(Encode(<<98, 99>>))}
        \cup {NA}
VecSubjects ==
    {NA, String8(Encode(<<97, 98, 97, 98>>)), String8(Encode(<<233, 97, 98>>))}
VecPatterns == {NA, String8(Encode(<<97, 98>>))}

\* ------------------------------------------------------- recycling rule
\* stri__recycling_rule(true, 2, ns, np): the vectorized length, or -1 when
\* the lengths are incompatible (the call then fails).
stri__recycling_rule(ns, np) ==
    IF ns = 0 \/ np = 0 THEN 0
    ELSE LET L == IF ns > np THEN ns ELSE np
         IN  IF L % ns = 0 /\ L % np = 0 THEN L ELSE -1

VectorizeLengthOfStrTwice(ns, np) == stri__recycling_rule(ns, ns)

\* stri__recycling_rule(true, 2, LENGTH(str), LENGTH(pattern))
VectorizeLength(ns, np) == stri__recycling_rule(ns, np)

\* ------------------------------------------------- recycled containers
\* A container: the n strings it was built from, recycled to nrecycle.
Container(v, nrecycle) == [data |-> v, n |-> Len(v), nrecycle |-> nrecycle]

\* data[i%n]
ContainerIndex(i, n) == i % n

GuardIndexOffByOne(i, nrecycle) ==
    IF i < 0 \/ i >= nrecycle - 1 THEN "IndexOutOfBounds" ELSE "none"

\* #ifndef NDEBUG: if (i < 0 || i >= nrecycle) throw ...
GuardIndex(i, nrecycle) ==
    IF i < 0 \/ i >= nrecycle THEN "IndexOutOfBounds" ELSE "none"

isNA(c, i) == c.data[ContainerIndex(i, c.n) + 1].na

get(c, i) == c.data[ContainerIndex(i, c.n) + 1]

\* The exception an accessor call throws in a debug build ("none": it
\* returns).  a is a call [cont, op, i] made on container c.
Thrown(c, a) ==
    IF GuardIndex(a.i, c.nrecycle) # "none" THEN GuardIndex(a.i, c.nrecycle)
    ELSE IF a.op = "get" /\ isNA(c, a.i) THEN "AccessOfNA"
    ELSE "none"

RECURSIVE FirstThrown(_, _, _)
FirstThrown(str_cont, pattern_cont, log) ==
    IF log = <<>> THEN "none"
    ELSE LET a == Head(log)
             t == Thrown(IF a.cont = "str" THEN str_cont ELSE pattern_cont, a)
         IN  IF t # "none" THEN t
             ELSE FirstThrown(str_cont, pattern_cont, Tail(log))

Call(cont, op, i) == [cont |-> cont, op |-> op, i |-> i]

\* ------------------------------------------------ StriByteSearchMatcher
\* The matcher compiled for one pattern: the pattern's bytes and the search
\* cursor.  searchPos = -1 after reset.
NewMatcher(patternStr) ==
    [patternStr |-> patternStr, searchStr |-> <<>>,
     searchPos |-> -1, searchEnd |-> -1]

reset(m, searchStr) ==
    [m EXCEPT !.searchStr = searchStr, !.searchPos = -1, !.searchEnd = -1]

\* Do the pattern's bytes stand at byte offset k (0-based) of searchStr?
RECURSIVE MatchesAt(_, _, _)
MatchesAt(m, k, j) ==
    IF j > Len(m.patternStr) THEN TRUE
    ELSE IF k + j > Len(m.searchStr) THEN FALSE
    ELSE IF m.searchStr[k + j] # m.patternStr[j] THEN FALSE
    ELSE MatchesAt(m, k, j + 1)

Found(m, k) ==
    [m |-> [m EXCEPT !.searchPos = k, !.searchEnd = k + Len(m.patternStr)],
     start |-> k]

NotFound(m) ==
    [m |-> [m EXCEPT !.searchPos = Len(m.searchStr),
                     !.searchEnd = Len(m.searchStr)],
     start |-> USEARCH_DONE]

\* Scan to the right from startPos for the first match.
RECURSIVE findFromPos(_, _)
findFromPos(m, startPos) ==
    IF startPos + Len(m.patternStr) > Len(m.searchStr) THEN NotFound(m)
    ELSE IF MatchesAt(m, startPos, 1) THEN Found(m, startPos)
    ELSE findFromPos(m, startPos + 1)

findFirst(m) == findFromPos(m, 0)

\* After a match at [searchPos, searchEnd): continue at searchEnd, or at
\* searchPos + 1 when overlapping matches are requested.
findNext(m, overlap) ==
    IF m.searchPos < 0 THEN findFirst(m)
    ELSE IF overlap THEN findFromPos(m, m.searchPos + 1)
    ELSE findFromPos(m, m.searchEnd)

\* Scan to the left from the end for the rightmost match.
RECURSIVE findLastFrom(_, _)
findLastFrom(m, k) ==
    IF k < 0 THEN NotFound(m)
    ELSE IF MatchesAt(m, k, 1) THEN Found(m, k)
    ELSE findLastFrom(m, k - 1)

findLast(m) == findLastFrom(m, Len(m.searchStr) - Len(m.patternStr))

getMatchedLength(m) == m.searchEnd - m.searchPos

\* ------------------------------------------------------ codepoint index
\* One pass over the UTF-8 buffer buf for the non-decreasing byte offsets
\* offs, converted in place from cursor j on: i8 walks the codepoint
\* boundaries, i32 counts the codepoints passed, and an offset reached by
\* i8 becomes i32 + adj.
RECURSIVE ScanIndex(_, _, _, _, _, _)
ScanIndex(buf, i8, i32, offs, j, adj) ==
    IF j > Len(offs) THEN offs
    ELSE IF i8 >= Len(buf) THEN
        IF offs[j] <= Len(buf) THEN [offs EXCEPT ![j] = i32 + adj] ELSE offs
    ELSE IF offs[j] <= i8 THEN
        ScanIndex(buf, i8 + U8Length(buf[i8 + 1]), i32 + 1,
                  [offs EXCEPT ![j] = i32 + adj], j + 1, adj)
    ELSE
        ScanIndex(buf, i8 + U8Length(buf[i8 + 1]), i32 + 1, offs, j, adj)

\* StriContainerUTF8_indexable::UTF8_to_UChar32_index(i, i1, i2, ni, adj1, adj2)
\* on the bytes of the i-th string.
UTF8_to_UChar32_index(buf, i1, i2, adj1, adj2) ==
    [i1 |-> ScanIndex(buf, 0, 0, i1, 1, adj1),
     i2 |-> ScanIndex(buf, 0, 0, i2, 1, adj2)]

\* --------------------------------------------------------- loop macros
\* STRI__CONTINUE_ON_EMPTY_OR_NA_STR_PATTERN: which branch element i takes
\* ("na": subject or pattern missing; "empty": empty pattern; "search"),
\* and the accessor calls made to decide it.
STRI__CONTINUE_ON_EMPTY_OR_NA_STR_PATTERN(str_cont, pattern_cont, i) ==
    IF isNA(str_cont, i) THEN
        [kind |-> "na", log |-> <<Call("str", "isNA", i)>>]
    ELSE IF isNA(pattern_cont, i) THEN
        [kind |-> "na",
         log |-> <<Call("str", "isNA", i), Call("pattern", "isNA", i)>>]
    ELSE
        [kind |-> IF Len(get(pattern_cont, i).s) <= 0 THEN "empty"
                  ELSE "search",
         log |-> <<Call("str", "isNA", i), Call("pattern", "isNA", i),
                   Call("pattern", "get", i)>>]

vectorize_init(c) == 0
vectorize_end(c) == c.nrecycle
vectorize_next(c, i) == i + 1

\* ------------------------------------------------------ output objects
\* stri__matrix_NA_INTEGER(nrow, ncol, filler): nrow rows of ncol fillers.
stri__matrix_NA_INTEGER(nrow, ncol, filler) ==
    [r \in 1..nrow |-> [c \in 1..ncol |-> filler]]

\* A row of Rf_allocMatrix(INTSXP, ...) not yet written, and an element of
\* Rf_allocVector(VECSXP, ...) not yet set; neither is read by the loops.
Uninitialized == <<0, 0>>
R_NilValue == << <<>> >>

\* getByteSearchFlags(opts_fixed, allow_overlap): is the search overlapping?
getByteSearchFlags(overlap_opt, allow_overlap) == overlap_opt /\ allow_overlap

\* ------------------------------------------ stri__locate_firstlast_fixed
BindMatcherOnce(m, s) == IF m.searchStr = <<>> THEN reset(m, s) ELSE m

\* matcher->reset(str_cont.get(i).c_str(), str_cont.get(i).length())
BindMatcher(m, s) == reset(m, s)

MatchEndInclusive(start, matchedLength) == start + matchedLength - 1

\* start + matcher->getMatchedLength()
MatchEnd(start, matchedLength) == start + matchedLength

ToLengthNoAdjust(from, to) == to - from

\* ret_tab[i+vectorize_length] -= ret_tab[i] - 1
ToLength(from, to) == to - (from - 1)

FirstLastNaSetAsZeroSet(get_length1, rec) ==
    IF get_length1 THEN <<-1, -1>> ELSE rec

\* nothing on NA - keep NA_INTEGER
FirstLastNaSet(get_length1, rec) == rec

\* { if (get_length1) ret_tab[i] = ret_tab[i+vectorize_length] = -1; }
FirstLastZeroSet(get_length1, rec) ==
    IF get_length1 THEN <<-1, -1>> ELSE rec

FirstLastNotFoundKeepsNA(get_length1, rec) == rec

\* else if (get_length1) { ret_tab[i+vectorize_length] = ret_tab[i] = -1; }
FirstLastNotFound(get_length1, rec) ==
    IF get_length1 THEN <<-1, -1>> ELSE rec

\* if (start != USEARCH_DONE) { ... }: the record of a match at byte start.
FirstLastFound(buf, start, matchedLength, get_length1) ==
    LET conv == UTF8_to_UChar32_index(
                    buf, <<start>>, <<MatchEnd(start, matchedLength)>>, 1, 0)
    IN  IF get_length1 THEN <<conv.i1[1], ToLength(conv.i1[1], conv.i2[1])>>
        ELSE <<conv.i1[1], conv.i2[1]>>

\* One iteration of the loop of stri__locate_firstlast_fixed for index i,
\* with m the matcher getMatcher(i) hands out: the record written to row i,
\* the matcher as it is left, and the accessor calls made.
FirstLastIteration(str_cont, pattern_cont, m, i, first, get_length1) ==
    LET rec0 == <<NA_INTEGER, NA_INTEGER>>
        chk  == STRI__CONTINUE_ON_EMPTY_OR_NA_STR_PATTERN(str_cont, pattern_cont, i)
    IN  IF chk.kind = "na" THEN
            [rec |-> FirstLastNaSet(get_length1, rec0), matcher |-> m,
             log |-> chk.log]
        ELSE IF chk.kind = "empty" THEN
            [rec |-> FirstLastZeroSet(get_length1, rec0), matcher |-> m,
             log |-> chk.log]
        ELSE
            LET buf == get(str_cont, i).s
                m1  == BindMatcher(m, buf)
                f   == IF first THEN findFirst(m1) ELSE findLast(m1)
                got == <<Call("str", "get", i), Call("str", "get", i)>>
            IN  IF f.start # USEARCH_DONE THEN
                    [rec |-> FirstLastFound(buf, f.start,
                                            getMatchedLength(f.m), get_length1),
                     matcher |-> f.m,
                     log |-> chk.log \o got \o <<Call("str", "get", i)>>]
                ELSE
                    [rec |-> FirstLastNotFound(get_length1, rec0),
                     matcher |-> f.m, log |-> chk.log \o got]

\* ------------------------------------------------- stri_locate_all_fixed
AllPatternFlagsNoOverlap(overlap_opt) == getByteSearchFlags(overlap_opt, FALSE)

\* getByteSearchFlags(opts_fixed, /*allow_overlap*/true)
AllPatternFlags(overlap_opt) == getByteSearchFlags(overlap_opt, TRUE)

\* SET_VECTOR_ELT(ret, i, stri__matrix_NA_INTEGER(1, 2))
AllNaSet(omit_no_match1, get_length1) ==
    stri__matrix_NA_INTEGER(1, 2, NA_INTEGER)

AllZeroSetAlwaysRow(omit_no_match1, get_length1) ==
    stri__matrix_NA_INTEGER(1, 2, IF get_length1 THEN -1 ELSE NA_INTEGER)

\* stri__matrix_NA_INTEGER(omit_no_match1?0:1, 2, get_length1?-1:NA_INTEGER)
AllZeroSet(omit_no_match1, get_length1) ==
    stri__matrix_NA_INTEGER(IF omit_no_match1 THEN 0 ELSE 1, 2,
                            IF get_length1 THEN -1 ELSE NA_INTEGER)

\* if (start == USEARCH_DONE) { ...omit_no_match1?0:1, 2, get_length1?-1:NA... }
AllNoMatch(omit_no_match1, get_length1) ==
    stri__matrix_NA_INTEGER(IF omit_no_match1 THEN 0 ELSE 1, 2,
                            IF get_length1 THEN -1 ELSE NA_INTEGER)

\* while (start != USEARCH_DONE) { occurrences.push_back(...); findNext(); }
RECURSIVE CollectOccurrences(_, _, _, _)
CollectOccurrences(m, start, overlap, occurrences) ==
    IF start = USEARCH_DONE THEN [matcher |-> m, occurrences |-> occurrences]
    ELSE LET pushed == Append(occurrences,
                              <<start, MatchEnd(start, getMatchedLength(m))>>)
             nx == findNext(m, overlap)
         IN  CollectOccurrences(nx.m, nx.start, overlap, pushed)

AllRowsStartZeroBased(buf, occurrences, get_length1) ==
    LET n    == Len(occurrences)
        conv == UTF8_to_UChar32_index(buf,
                    [j \in 1..n |-> occurrences[j][1]],
                    [j \in 1..n |-> occurrences[j][2]], 0, 0)
    IN  [j \in 1..n |->
            IF get_length1 THEN <<conv.i1[j], ToLength(conv.i1[j], conv.i2[j])>>
            ELSE <<conv.i1[j], conv.i2[j]>>]

\* The matrix built from the deque: byte pairs copied, converted in one
\* batch to codepoint positions, then rewritten to lengths if asked.
AllRows(buf, occurrences, get_length1) ==
    LET n    == Len(occurrences)
        conv == UTF8_to_UChar32_index(buf,
                    [j \in 1..n |-> occurrences[j][1]],
                    [j \in 1..n |-> occurrences[j][2]], 1, 0)
    IN  [j \in 1..n |->
            IF get_length1 THEN <<conv.i1[j], ToLength(conv.i1[j], conv.i2[j])>>
            ELSE <<conv.i1[j], conv.i2[j]>>]

\* One iteration of the loop of stri_locate_all_fixed for index i.
AllIteration(str_cont, pattern_cont, m, i, overlap, omit_no_match1, get_length1) ==
    LET chk == STRI__CONTINUE_ON_EMPTY_OR_NA_STR_PATTERN(str_cont, pattern_cont, i)
    IN  IF chk.kind = "na" THEN
            [rows |-> AllNaSet(omit_no_match1, get_length1), matcher |-> m,
             occurrences |-> <<>>, log |-> chk.log]
        ELSE IF chk.kind = "empty" THEN
            [rows |-> AllZeroSet(omit_no_match1, get_length1), matcher |-> m,
             occurrences |-> <<>>, log |-> chk.log]
        ELSE
            LET buf == get(str_cont, i).s
                m1  == BindMatcher(m, buf)
                f   == findFirst(m1)
                got == <<Call("str", "get", i), Call("str", "get", i)>>
            IN  IF f.start = USEARCH_DONE THEN
                    [rows |-> AllNoMatch(omit_no_match1, get_length1),
                     matcher |-> f.m, occurrences |-> <<>>,
                     log |-> chk.log \o got]
                ELSE
                    LET c == CollectOccurrences(f.m, f.start, overlap, <<>>)
                    IN  [rows |-> AllRows(buf, c.occurrences, get_length1),
                         matcher |-> c.matcher,
                         occurrences |-> c.occurrences,
                         log |-> chk.log \o got \o <<Call("str", "get", i)>>]

\* ------------------------------------------------------------ the call
VARIABLES
    fn,               \* "first", "last" or "all": the function called
    str,              \* argument str: a sequence of strings
    pattern,          \* argument pattern: a sequence of strings
    overlap_opt,      \* opts_fixed: overlap
    omit_no_match1,   \* omit_no_match (stri_locate_all_fixed)
    get_length1,      \* get_length
    pc,               \* "prepared", "loop", "returned" or "error"
    vectorize_length, \* the recycling rule's result
    i,                \* the loop index
    ret,              \* the result: index -> record (first, last) or rows (all)
    matchers,         \* pattern_cont's matcher for each pattern, as last left
    occurrences,      \* the deque of byte pairs of the latest iteration
    log,              \* the accessor calls of the latest iteration
    err               \* the error the call failed with, or "none"

vars == <<fn, str, pattern, overlap_opt, omit_no_match1, get_length1, pc,
          vectorize_length, i, ret, matchers, occurrences, log, err>>

args == <<fn, str, pattern, overlap_opt, omit_no_match1, get_length1>>

\* The arguments of a call: either one subject and one pattern from the
\* enumerated strings, or vectors of up to MaxVec elements.
Init ==
    /\ fn \in {"first", "last", "all"}
    /\ \/ /\ str \in {<<s>> : s \in Subjects}
          /\ pattern \in {<<p>> : p \in Patterns}
       \/ /\ str \in SeqsUpTo(VecSubjects, MaxVec)
          /\ pattern \in SeqsUpTo(VecPatterns, MaxVec)
    /\ get_length1 \in BOOLEAN
    /\ overlap_opt \in IF fn = "all" THEN BOOLEAN ELSE {FALSE}
    /\ omit_no_match1 \in IF fn = "all" THEN BOOLEAN ELSE {FALSE}
    /\ pc = "prepared"
    /\ vectorize_length = 0
    /\ i = 0
    /\ ret = <<>>
    /\ matchers = <<>>
    /\ occurrences = <<>>
    /\ log = <<>>
    /\ err = "none"

str_cont == Container(str, vectorize_length)
pattern_cont == Container(pattern, vectorize_length)

\* pattern_cont.getMatcher(i): the matcher of pattern i % n.
getMatcher(k) == matchers[ContainerIndex(k, Len(pattern)) + 1]

\* stri__recycling_rule succeeds: the containers are built and the result
\* is allocated with vectorize_length rows (elements).
Vectorize ==
    /\ pc = "prepared"
    /\ VectorizeLength(Len(str), Len(pattern)) >= 0
    /\ vectorize_length' = VectorizeLength(Len(str), Len(pattern))
    /\ matchers' = [k \in 1..Len(pattern) |-> NewMatcher(pattern[k].s)]
    /\ ret' = [k \in 0..(vectorize_length' - 1) |->
                  IF fn = "all" THEN R_NilValue ELSE Uninitialized]
    /\ i' = vectorize_init(Container(pattern, vectorize_length'))
    /\ pc' = "loop"
    /\ UNCHANGED <<args, occurrences, log, err>>

\* stri__recycling_rule fails: the error handler ends the call.
RecyclingError ==
    /\ pc = "prepared"
    /\ VectorizeLength(Len(str), Len(pattern)) < 0
    /\ pc' = "error"
    /\ err' = "RecyclingIncompatible"
    /\ UNCHANGED <<args, vectorize_length, i, ret, matchers, occurrences, log>>

\* One iteration of the loop of stri__locate_firstlast_fixed.
LocateFirstLastStep ==
    /\ pc = "loop"
    /\ fn \in {"first", "last"}
    /\ i # vectorize_end(pattern_cont)
    /\ LET it == FirstLastIteration(str_cont, pattern_cont, getMatcher(i), i,
                                    fn = "first", get_length1)
           thrown == FirstThrown(str_cont, pattern_cont, it.log)
       IN  /\ log' = it.log
           /\ IF thrown # "none"
              THEN /\ pc' = "error"
                   /\ err' = thrown
                   /\ UNCHANGED <<i, ret, matchers>>
              ELSE /\ ret' = [ret EXCEPT ![i] = it.rec]
                   /\ matchers' = [matchers EXCEPT
                          ![ContainerIndex(i, Len(pattern)) + 1] = it.matcher]
                   /\ i' = vectorize_next(pattern_cont, i)
                   /\ UNCHANGED <<pc, err>>
    /\ UNCHANGED <<args, vectorize_length, occurrences>>

\* One iteration of the loop of stri_locate_all_fixed.
LocateAllStep ==
    /\ pc = "loop"
    /\ fn = "all"
    /\ i # vectorize_end(pattern_cont)
    /\ LET it == AllIteration(str_cont, pattern_cont, getMatcher(i), i,
                              AllPatternFlags(overlap_opt), omit_no_match1,
                              get_length1)
           thrown == FirstThrown(str_cont, pattern_cont, it.log)
       IN  /\ log' = it.log
           /\ IF thrown # "none"
              THEN /\ pc' = "error"
                   /\ err' = thrown
                   /\ UNCHANGED <<i, ret, matchers, occurrences>>
              ELSE /\ ret' = [ret EXCEPT ![i] = it.rows]
                   /\ matchers' = [matchers EXCEPT
                          ![ContainerIndex(i, Len(pattern)) + 1] = it.matcher]
                   /\ occurrences' = it.occurrences
                   /\ i' = vectorize_next(pattern_cont, i)
                   /\ UNCHANGED <<pc, err>>
    /\ UNCHANGED <<args, vectorize_length>>

\* The loop has reached vectorize_end(): return ret.
Return ==
    /\ pc = "loop"
    /\ i = vectorize_end(pattern_cont)
    /\ pc' = "returned"
    /\ UNCHANGED <<args, vectorize_length, i, ret, matchers, occurrences, log, err>>

Next ==
    \/ Vectorize
    \/ RecyclingError
    \/ LocateFirstLastStep
    \/ LocateAllStep
    \/ Return

Spec == Init /\ [][Next]_vars

\* ------------------------------------------------------------------------
\* Notions the properties are stated in, defined without the matcher and
\* without the index scan.
\* ------------------------------------------------------------------------
Subject(k) == str[(k % Len(str)) + 1]
Pattern(k) == pattern[(k % Len(pattern)) + 1]

\* The indices whose iteration has completed.
Processed == IF pc \in {"loop", "returned"} THEN 0..(i - 1) ELSE {}

\* Both strings present and the pattern non-empty: a search is run.
Searched(k) == ~Subject(k).na /\ ~Pattern(k).na /\ Pattern(k).s # <<>>

\* Byte offsets (0-based) at which p stands in s.
OccursAt(p, s, k) ==
    /\ k >= 0
    /\ k + Len(p) <= Len(s)
    /\ \A j \in 1..Len(p) : s[k + j] = p[j]
Occ(p, s) == {k \in 0..(Len(s) - Len(p)) : OccursAt(p, s, k)}
OccOf(k) == Occ(Pattern(k).s, Subject(k).s)

Min(S) == CHOOSE x \in S : \A y \in S : x <= y
Max(S) == CHOOSE x \in S : \A y \in S : x >= y

\* The number of codepoints that begin within the first o bytes of buf
\* (a byte 10xxxxxx continues a codepoint).
CodepointsBefore(buf, o) ==
    Cardinality({j \in 1..o : buf[j] < 128 \/ buf[j] >= 192})

\* The occurrences picked from the left, each next one sought from the
\* end of the last (or one byte after its start when overlapping).
RECURSIVE PickedFrom(_, _, _, _)
PickedFrom(p, s, from, overlap) ==
    LET C == {k \in Occ(p, s) : k >= from}
    IN  IF C = {} THEN <<>>
        ELSE <<Min(C)>> \o PickedFrom(p, s,
                 IF overlap THEN Min(C) + 1 ELSE Min(C) + Len(p), overlap)

NARecord == <<NA_INTEGER, NA_INTEGER>>
NotFoundRecord == <<-1, -1>>

\* The record (start, end) or (start, length) of an occurrence at byte b.
RecordAt(p, s, b, as_length) ==
    LET start == CodepointsBefore(s, b) + 1
        end   == CodepointsBefore(s, b + Len(p))
    IN  IF as_length THEN <<start, end - start + 1>> ELSE <<start, end>>

\* What locate_first/locate_last give for one subject x and pattern y.
ExpectedFirstLast(first, x, y, as_length) ==
    IF x.na \/ y.na THEN NARecord
    ELSE IF y.s = <<>> \/ Occ(y.s, x.s) = {} THEN
        IF as_length THEN NotFoundRecord ELSE NARecord
    ELSE RecordAt(y.s, x.s,
                  IF first THEN Min(Occ(y.s, x.s)) ELSE Max(Occ(y.s, x.s)),
                  as_length)

\* What locate_all gives for one subject x and pattern y.
ExpectedAll(x, y, overlap, omit, as_length) ==
    IF x.na \/ y.na THEN <<NARecord>>
    ELSE IF y.s = <<>> \/ Occ(y.s, x.s) = {} THEN
        IF omit THEN <<>>
        ELSE IF as_length THEN <<NotFoundRecord>> ELSE <<NARecord>>
    ELSE LET picked == PickedFrom(y.s, x.s, 0, overlap)
         IN  [j \in 1..Len(picked) |-> RecordAt(y.s, x.s, picked[j], as_length)]

Abcabc == String8(Encode(<<97, 98, 99, 97, 98, 99>>))
Xyz == String8(Encode(<<120, 121, 122>>))
EacuteBc == String8(Encode(<<233, 98, 99>>))
Bc == String8(Encode(<<98, 99>>))
Aaaa == String8(Encode(<<97, 97, 97, 97>>))
Aaa == String8(Encode(<<97, 97, 97>>))
Aa == String8(Encode(<<97, 97>>))

\* ------------------------------------------------------------------------
\* C1. locate_first/locate_last report a found match in codepoint
\* coordinates: start is the 1-based position of the codepoint at the
\* match's first byte (the leftmost occurrence for first, the rightmost
\* for last), end the codepoint position of the exclusive end byte under
\* the next-character policy; "bc" in "abcabc" gives (2,3), and "bc" after
\* a two-byte codepoint starts at 2, not at byte offset 3.
C1_CodepointCoordinates ==
    /\ \A k \in Processed :
          (fn \in {"first", "last"} /\ Searched(k) /\ OccOf(k) # {}) =>
              LET s == Subject(k).s
                  p == Pattern(k).s
                  b == IF fn = "first" THEN Min(OccOf(k)) ELSE Max(OccOf(k))
              IN  /\ ret[k][1] = CodepointsBefore(s, b) + 1
                  /\ ~get_length1 => ret[k][2] = CodepointsBefore(s, b + Len(p))
    /\ (pc = "returned" /\ fn = "first" /\ ~get_length1 /\ pattern = <<Bc>>) =>
          /\ str = <<Abcabc>> => ret[0] = <<2, 3>>
          /\ str = <<EacuteBc>> => ret[0][1] = 2

C1_Witness ==
    /\ pc = "returned" /\ fn = "first" /\ ~get_length1
    /\ str = <<EacuteBc>> /\ pattern = <<Bc>>
    /\ ret[0] = <<2, 3>>

\* C2. locate_first/locate_last, subject and pattern both present: an
\* empty pattern, or a pattern that does not occur, gives (-1,-1) when
\* as_length and the NA record otherwise.
C2_EmptyOrNoMatch ==
    \A k \in Processed :
        (/\ fn \in {"first", "last"}
         /\ ~Subject(k).na /\ ~Pattern(k).na
         /\ (Pattern(k).s = <<>> \/ OccOf(k) = {})) =>
            ret[k] = IF get_length1 THEN NotFoundRecord ELSE NARecord

C2_Witness ==
    /\ pc = "returned" /\ fn = "last" /\ get_length1
    /\ str = <<Xyz>> /\ pattern = <<Bc>>
    /\ ret[0] = <<-1, -1>>

\* C3. A missing subject or pattern gives the NA sentinel whatever the
\* flags: the NA record from locate_first/locate_last, exactly one NA row
\* from locate_all; NA wins over the empty-pattern and no-match cases.
C3_NAWins ==
    \A k \in Processed :
        (Subject(k).na \/ Pattern(k).na) =>
            IF fn = "all" THEN ret[k] = <<NARecord>> ELSE ret[k] = NARecord

C3_Witness ==
    /\ pc = "returned" /\ fn = "all" /\ omit_no_match1 /\ get_length1
    /\ str = <<NA>> /\ pattern = <<String8(<<>>)>>
    /\ ret[0] = <<NARecord>>

\* A row that stands for "nothing found" or "missing".
IsSentinel(row) == row = NARecord \/ row = NotFoundRecord

\* The result of locate_all for an index with nothing to report.
AllNothing ==
    IF omit_no_match1 THEN <<>>
    ELSE IF get_length1 THEN <<NotFoundRecord>> ELSE <<NARecord>>

\* C4 as stated. locate_all, subject and pattern both present: an empty
\* pattern or no occurrence gives zero rows when omit_no_match and else one
\* sentinel row ((-1,-1) if as_length, NA if not); a pattern that occurs
\* k >= 1 times gives exactly k rows and no sentinel row.
C4_RowsPerOccurrence ==
    \A k \in Processed :
        (fn = "all" /\ ~Subject(k).na /\ ~Pattern(k).na) =>
            IF Pattern(k).s = <<>> \/ OccOf(k) = {}
            THEN ret[k] = AllNothing
            ELSE /\ Len(ret[k]) = Cardinality(OccOf(k))
                 /\ \A j \in 1..Len(ret[k]) : ~IsSentinel(ret[k][j])

\* C4 amended. As C4, with k the number of matches the search finds: every
\* occurrence when overlap is allowed, and otherwise the occurrences picked
\* from the left so that none overlaps the one picked before it.
C4_RowsPerMatch ==
    \A k \in Processed :
        (fn = "all" /\ ~Subject(k).na /\ ~Pattern(k).na) =>
            IF Pattern(k).s = <<>> \/ OccOf(k) = {}
            THEN ret[k] = AllNothing
            ELSE /\ Len(ret[k]) =
                        IF overlap_opt THEN Cardinality(OccOf(k))
                        ELSE Len(PickedFrom(Pattern(k).s, Subject(k).s, 0, FALSE))
                 /\ Len(ret[k]) >= 1
                 /\ \A j \in 1..Len(ret[k]) : ~IsSentinel(ret[k][j])

C4_Witness ==
    /\ pc = "returned" /\ fn = "all" /\ ~overlap_opt /\ ~omit_no_match1
    /\ str = <<Aaa>> /\ pattern = <<Aa>>
    /\ Cardinality(OccOf(0)) = 2
    /\ Len(ret[0]) = 1

\* C5. locate_all collects the matches of findFirst and then findNext in
\* discovery order, the next search starting at the end of a match, or one
\* byte after its start when overlap is requested: starts increase
\* strictly, without overlap no two byte ranges overlap and the rows are
\* the occurrences picked greedily from the left; "aa" in "aaaa" gives 2
\* rows without overlap and 3 with.
C5_DiscoveryOrder ==
    (fn = "all" /\ pc \in {"loop", "returned"} /\ i > 0 /\ Searched(i - 1)) =>
        LET s == Subject(i - 1).s
            p == Pattern(i - 1).s
            picked == PickedFrom(p, s, 0, overlap_opt)
        IN  /\ occurrences = [j \in 1..Len(picked) |->
                                 <<picked[j], picked[j] + Len(p)>>]
            /\ \A j \in 1..(Len(occurrences) - 1) :
                  /\ occurrences[j][1] < occurrences[j + 1][1]
                  /\ ~overlap_opt => occurrences[j][2] <= occurrences[j + 1][1]
            /\ occurrences # <<>> => Len(ret[i - 1]) = Len(occurrences)
            /\ (Subject(i - 1) = Aaaa /\ Pattern(i - 1) = Aa) =>
                  Len(ret[i - 1]) = IF overlap_opt THEN 3 ELSE 2

C5_Witness ==
    /\ pc = "returned" /\ fn = "all" /\ overlap_opt /\ ~get_length1
    /\ str = <<Aaaa>> /\ pattern = <<Aa>>
    /\ occurrences = <<<<0, 2>>, <<1, 3>>, <<2, 4>>>>
    /\ ret[0] = <<<<1, 2>>, <<2, 3>>, <<3, 4>>>>

\* The lengths cannot be recycled: both nonzero, and the smaller does not
\* divide the larger.
Incompatible ==
    /\ Len(str) > 0
    /\ Len(pattern) > 0
    /\ IF Len(str) > Len(pattern) THEN Len(str) % Len(pattern) # 0
       ELSE Len(pattern) % Len(str) # 0

C7_Vectorized ==
    (pc \in {"loop", "returned"}) =>
        /\ vectorize_length =
              IF Len(str) = 0 \/ Len(pattern) = 0 THEN 0
              ELSE IF Len(str) > Len(pattern) THEN Len(str) ELSE Len(pattern)
        /\ DOMAIN ret = 0..(vectorize_length - 1)
        /\ pc = "returned" => i = vectorize_length
        /\ \A k \in Processed :
              ret[k] = IF fn = "all"
                       THEN ExpectedAll(Subject(k), Pattern(k), overlap_opt,
                                        omit_no_match1, get_length1)
                       ELSE ExpectedFirstLast(fn = "first", Subject(k),
                                              Pattern(k), get_length1)

C7_Witness ==
    /\ pc = "returned" /\ fn = "first" /\ ~get_length1
    /\ Len(str) = 3 /\ Len(pattern) = 1
    /\ str[1] # str[2] /\ ~str[1].na /\ ~str[2].na /\ str[3] = str[1]
    /\ ~pattern[1].na
    /\ ret[0] # ret[1] /\ ret[2] = ret[0]

\* What the same call gives for index k with get_length = FALSE.
FirstLastPositions(k) ==
    FirstLastIteration(str_cont, pattern_cont, NewMatcher(Pattern(k).s), k,
                       fn = "first", FALSE).rec
AllPositions(k) ==
    AllIteration(str_cont, pattern_cont, NewMatcher(Pattern(k).s), k,
                 AllPatternFlags(overlap_opt), omit_no_match1, FALSE).rows

\* (start, length) is the rewriting of the non-sentinel (start, end).
LengthForm(row, pos) ==
    /\ pos[2] >= pos[1]
    /\ row = <<pos[1], pos[2] - pos[1] + 1>>
    /\ row[2] >= 1
    /\ pos[2] = row[1] + row[2] - 1

\* C8. Every non-sentinel record of the three functions has end >= start
\* when as_length is false; when as_length is true it is (start, length)
\* with the start of the record (start, end) that the as_length = FALSE
\* call returns and length = end - start + 1 >= 1.  Sentinel records are
\* not rewritten.
C8_LengthForm ==
    \A k \in Processed :
        IF fn = "all"
        THEN LET P == AllPositions(k)
             IN  /\ Len(ret[k]) = Len(P)
                 /\ \A j \in 1..Len(P) :
                       IF IsSentinel(P[j]) THEN IsSentinel(ret[k][j])
                       ELSE IF get_length1 THEN LengthForm(ret[k][j], P[j])
                       ELSE ret[k][j][2] >= ret[k][j][1]
        ELSE LET P == FirstLastPositions(k)
             IN  IF IsSentinel(P) THEN IsSentinel(ret[k])
                 ELSE IF get_length1 THEN LengthForm(ret[k], P)
                 ELSE ret[k][2] >= ret[k][1]

C8_Witness ==
    /\ pc = "returned" /\ fn = "last" /\ get_length1
    /\ str = <<Abcabc>> /\ pattern = <<Bc>>
    /\ FirstLastPositions(0) = <<5, 6>>
    /\ ret[0] = <<5, 2>>

\* C9. When the pattern occurs exactly once in the subject, locate_first
\* and locate_last return the same record, for either as_length, and that
\* record is the single row locate_all returns.
C9_SingleOccurrence ==
    \A k \in Processed :
        (Searched(k) /\ Cardinality(OccOf(k)) = 1) =>
            LET m == NewMatcher(Pattern(k).s)
                F == FirstLastIteration(str_cont, pattern_cont, m, k,
                                        TRUE, get_length1).rec
                L == FirstLastIteration(str_cont, pattern_cont, m, k,
                                        FALSE, get_length1).rec
            IN  /\ F = L
                /\ ~IsSentinel(F)
                /\ \A ov \in BOOLEAN, om \in BOOLEAN :
                      AllIteration(str_cont, pattern_cont, m, k,
                                   AllPatternFlags(ov), om, get_length1).rows
                          = <<F>>
                /\ ret[k] = IF fn = "all" THEN <<F>> ELSE F

C9_Witness ==
    /\ pc = "returned" /\ fn = "all" /\ get_length1
    /\ str = <<EacuteBc>> /\ pattern = <<Bc>>
    /\ Cardinality(OccOf(0)) = 1
    /\ ret[0] = <<<<2, 2>>>>

\* An isNA call on the same container and index comes before position j of
\* the log, and it answered FALSE.
CheckedBefore(j) ==
    \E h \in 1..(j - 1) :
        /\ log[h] = [log[j] EXCEPT !.op = "isNA"]
        /\ ~isNA(IF log[j].cont = "str" THEN str_cont ELSE pattern_cont, log[j].i)

\* C10. The accessors address element i mod n, and in a debug build throw
\* for i < 0 or i >= nrecycle, get also for an NA element; the locate loops
\* call them only with 0 <= i < L, and get only after the NA check of that
\* index has passed, so neither assertion is ever raised.
C10_GuardedAccess ==
    /\ err \notin {"IndexOutOfBounds", "AccessOfNA"}
    /\ \A j \in 1..Len(log) :
          /\ 0 <= log[j].i /\ log[j].i < vectorize_length
          /\ log[j].op = "get" => CheckedBefore(j)
    /\ pc \in {"loop", "returned"} =>
          /\ \A k \in 0..(vectorize_length - 1) :
                /\ get(str_cont, k) = Subject(k)
                /\ get(pattern_cont, k) = Pattern(k)
                /\ isNA(str_cont, k) = Subject(k).na
                /\ Thrown(str_cont, Call("str", "isNA", k)) = "none"
                /\ Thrown(str_cont, Call("str", "get", k)) =
                      IF Subject(k).na THEN "AccessOfNA" ELSE "none"
          /\ \A op \in {"isNA", "get"}, k \in {-1, vectorize_length} :
                Thrown(str_cont, Call("str", op, k)) = "IndexOutOfBounds"

C10_Witness ==
    /\ pc = "returned" /\ err = "none"
    /\ Len(str) = 1 /\ Len(pattern) = 3 /\ vectorize_length = 3
    /\ ~str[1].na /\ ~pattern[3].na
    /\ Call("str", "get", 2) \in {log[j] : j \in 1..Len(log)}

====
